---- MODULE Spec2Model ----
(***************************************************************************)
(* A model of scenegen.py: one run of main() reads the command line,       *)
(* resolves the entity filter, fetches the states from Home Assistant,     *)
(* projects every state that passes the filter and writes the scene as     *)
(* YAML.                                                                   *)
(*                                                                         *)
(* Python strings the program splits, searches or sorts (entity ids, the   *)
(* --types and --filter values, section names) are sequences of one        *)
(* character strings; strings it only copies or compares for equality      *)
(* (scene names, state strings, attribute names and values) are TLA+       *)
(* strings.  An optional value is <<>> (None) or <<v>>.                    *)
(***************************************************************************)
EXTENDS Integers, Sequences, FiniteSets, TLC

\* ------------------------------------------------------------------------
\* Python string operations
\* ------------------------------------------------------------------------

\* The characters used, in code point order (',' 44, '.' 46, '_' 95, a-z).
Alphabet ==
    <<",", ".", "_", "a", "b", "c", "e", "g", "h", "i", "k", "l", "m",
      "n", "o", "r", "s", "t", "w">>

\* ord(c), up to an order preserving renumbering.
Ord(c) ==
    CHOOSE i \in 1..Len(Alphabet) : Alphabet[i] = c

\* a < b on Python str: lexicographic by code point, a proper prefix first.
RECURSIVE StrLess(_, _)
StrLess(a, b) ==
    IF b = <<>> THEN FALSE
    ELSE IF a = <<>> THEN TRUE
    ELSE IF Head(a) # Head(b) THEN Ord(Head(a)) < Ord(Head(b))
    ELSE StrLess(Tail(a), Tail(b))

\* s.split(sep) for a one character sep: always at least one piece.
RECURSIVE Split(_, _)
Split(s, sep) ==
    IF \A i \in 1..Len(s) : s[i] # sep THEN <<s>>
    ELSE LET i == CHOOSE j \in 1..Len(s) :
                      s[j] = sep /\ \A k \in 1..(j - 1) : s[k] # sep
         IN  <<SubSeq(s, 1, i - 1)>> \o Split(SubSeq(s, i + 1, Len(s)), sep)

\* `sub in s` for two Python str: sub occurs in s as a substring.
StrContains(s, sub) ==
    \E i \in 0..(Len(s) - Len(sub)) : SubSeq(s, i + 1, i + Len(sub)) = sub

\* `x in lst` for a Python list.
ListContains(lst, x) ==
    \E i \in 1..Len(lst) : lst[i] = x

\* The elements of a sequence.
Range(seq) ==
    {seq[i] : i \in 1..Len(seq)}

\* Truth value of an optional str: None and '' are both false.
Truthy(opt) ==
    opt # <<>> /\ opt[1] # <<>>

\* The same for an optional path, held as a TLA+ string.
TruthyPath(opt) ==
    opt # <<>> /\ opt[1] # ""

\* ------------------------------------------------------------------------
\* Module constants
\* ------------------------------------------------------------------------

LIGHT_ATTRS ==
    <<"transition", "profile", "brightness", "flash">>

LIGHT_COLOR_TYPES ==
    <<"xy_color", "rgb_color", "color_name", "color_temp">>

\* argparse defaults of --scenename, --colortype and --types.
DefaultSceneName ==
    "My New Scene"

DefaultColorType ==
    "xy_color"

DefaultTypes ==
    <<"l", "i", "g", "h", "t", ",", "s", "w", "i", "t", "c", "h">>

light ==
    <<"l", "i", "g", "h", "t">>

switch ==
    <<"s", "w", "i", "t", "c", "h">>

\* ------------------------------------------------------------------------
\* output_attrs
\* ------------------------------------------------------------------------

\* d[k] = v on a dict held as a function.
DictSet(d, k, v) ==
    [x \in (DOMAIN d) \cup {k} |-> IF x = k THEN v ELSE d[x]]

EmptyDict ==
    [x \in {} |-> ""]

\* state['entity_id'].split('.')[0]
DeviceType(entity_id) ==
    Split(entity_id, ".")[1]

\* `device_type in args.types`: args.types is the str argparse stored, so
\* this is Python's substring test on it.
TypeAllowed(device_type, types) ==
    StrContains(types, device_type)

\* The loop copying the attributes of LIGHT_ATTRS that are present.
RECURSIVE CopyLightAttrs(_, _, _)
CopyLightAttrs(nustate, attributes, attrs) ==
    IF attrs = <<>> THEN nustate
    ELSE CopyLightAttrs(
             IF Head(attrs) \in DOMAIN attributes
             THEN DictSet(nustate, Head(attrs), attributes[Head(attrs)])
             ELSE nustate,
             attributes, Tail(attrs))

\* The same loop with the break left out: every present colour is copied.
RECURSIVE FirstColorNoBreak(_, _, _)
FirstColorNoBreak(nustate, attributes, colors) ==
    IF colors = <<>> THEN nustate
    ELSE FirstColorNoBreak(
             IF Head(colors) \in DOMAIN attributes
             THEN DictSet(nustate, Head(colors), attributes[Head(colors)])
             ELSE nustate,
             attributes, Tail(colors))

\* The fallback loop over LIGHT_COLOR_TYPES: copy the first present, break.
RECURSIVE FirstColor(_, _, _)
FirstColor(nustate, attributes, colors) ==
    IF colors = <<>> THEN nustate
    ELSE IF Head(colors) \in DOMAIN attributes
    THEN DictSet(nustate, Head(colors), attributes[Head(colors)])
    ELSE FirstColor(nustate, attributes, Tail(colors))

\* The colour part of the light branch.
LightColor(nustate, attributes, colortype) ==
    IF colortype # "" /\ colortype \in DOMAIN attributes
    THEN DictSet(nustate, colortype, attributes[colortype])
    ELSE FirstColor(nustate, attributes, LIGHT_COLOR_TYPES)

\* The light branch: nustate for a light.
LightState(state, colortype) ==
    LightColor(
        CopyLightAttrs(DictSet(EmptyDict, "state", state.state),
                       state.attributes, LIGHT_ATTRS),
        state.attributes, colortype)

\* output_attrs with an allowed type that is neither light nor switch
\* dropped instead of reported.
output_attrs_drop(state, args) ==
    LET device_type == DeviceType(state.entity_id)
    IN  IF TypeAllowed(device_type, args.types) /\ device_type = light
        THEN [kind |-> "entry", entity_id |-> state.entity_id,
              nustate |-> [mapping |-> TRUE,
                           dict |-> LightState(state, args.colortype),
                           str |-> ""]]
        ELSE IF TypeAllowed(device_type, args.types) /\ device_type = switch
        THEN [kind |-> "entry", entity_id |-> state.entity_id,
              nustate |-> [mapping |-> FALSE, dict |-> EmptyDict,
                           str |-> state.state]]
        ELSE [kind |-> "none"]

\* output_attrs(state, args).  kind is "none" (return None), "error"
\* (error() was called: the process exits) or "entry" (the one entry dict
\* {entity_id: nustate}); a light's nustate is a mapping, a switch's the
\* bare state string.
output_attrs(state, args) ==
    LET device_type == DeviceType(state.entity_id)
    IN  IF TypeAllowed(device_type, args.types)
        THEN IF device_type = light
             THEN [kind |-> "entry", entity_id |-> state.entity_id,
                   nustate |-> [mapping |-> TRUE,
                                dict |-> LightState(state, args.colortype),
                                str |-> ""]]
             ELSE IF device_type = switch
             THEN [kind |-> "entry", entity_id |-> state.entity_id,
                   nustate |-> [mapping |-> FALSE, dict |-> EmptyDict,
                                str |-> state.state]]
             ELSE [kind |-> "error", device_type |-> device_type,
                   entity_id |-> state.entity_id]
        ELSE [kind |-> "none"]

\* ------------------------------------------------------------------------
\* YAML and the scene dict
\* ------------------------------------------------------------------------

\* A Python dict that is iterated (output['entities'], a parsed scene's
\* entities) is the sequence of its [key, value] items in insertion order.

\* d.update({key: value}): a new key is appended, a key already present
\* keeps its place and takes the new value.
DictUpdate(items, key, value) ==
    IF \E i \in 1..Len(items) : items[i].key = key
    THEN [i \in 1..Len(items) |->
             IF items[i].key = key THEN [key |-> key, value |-> value]
             ELSE items[i]]
    ELSE Append(items, [key |-> key, value |-> value])

\* list(d.keys())
Keys(items) ==
    [i \in 1..Len(items) |-> items[i].key]

\* Insert one item into a list of items sorted by key.
RECURSIVE InsertSorted(_, _)
InsertSorted(item, sorted) ==
    IF sorted = <<>> THEN <<item>>
    ELSE IF StrLess(item.key, Head(sorted).key)
    THEN <<item>> \o sorted
    ELSE <<Head(sorted)>> \o InsertSorted(item, Tail(sorted))

\* sorted(mapping.items()), as yaml's representer does for every mapping.
RECURSIVE SortItems(_)
SortItems(items) ==
    IF items = <<>> THEN <<>>
    ELSE InsertSorted(Head(items), SortItems(Tail(items)))

\* A representer that keeps the dict's own order.
UnsortedItems(items) ==
    items

\* The order in which yaml.dump emits the keys of a mapping.
RepresentMapping(items) ==
    SortItems(items)

\* yaml.dump(output, default_flow_style=False): the document text, as the
\* block of `entities` lines in the order emitted, then the `name` line.
yaml_dump(output) ==
    [entities |-> RepresentMapping(output.entities), name |-> output.name]

\* Build a dict from the lines of a block mapping, one after the other.
RECURSIVE LoadItems(_, _)
LoadItems(items, lines) ==
    IF lines = <<>> THEN items
    ELSE LoadItems(DictUpdate(items, Head(lines).key, Head(lines).value),
                   Tail(lines))

\* yaml.load(fobj)
yaml_load(text) ==
    [entities |-> LoadItems(<<>>, text.entities), name |-> text.name]

\* ------------------------------------------------------------------------
\* The environment of a run: entities, map file, scene file, server
\* ------------------------------------------------------------------------

\* Longest list of states the server returns.
MaxStates ==
    2

id_light_a ==
    <<"l", "i", "g", "h", "t", ".", "a">>

id_light_b ==
    <<"l", "i", "g", "h", "t", ".", "b">>

id_switch_a ==
    <<"s", "w", "i", "t", "c", "h", ".", "a">>

id_climate_a ==
    <<"c", "l", "i", "m", "a", "t", "e", ".", "a">>

id_swi_a ==
    <<"s", "w", "i", ".", "a">>

\* A dict given by its items.
Attrs(pairs) ==
    [k \in {p[1] : p \in pairs} |-> (CHOOSE p \in pairs : p[1] = k)[2]]

\* The entity states the server may return.
EntityStates ==
    { [entity_id |-> id_light_a, state |-> "on",
       attributes |-> Attrs({<<"brightness", "128">>, <<"rgb_color", "rgb1">>,
                             <<"color_temp", "ct1">>,
                             <<"friendly_name", "Lamp">>})],
      [entity_id |-> id_light_a, state |-> "off",
       attributes |-> Attrs({<<"color_name", "red">>, <<"color_temp", "ct2">>,
                             <<"transition", "2">>})],
      [entity_id |-> id_light_b, state |-> "on",
       attributes |-> Attrs({<<"xy_color", "xy1">>, <<"rgb_color", "rgb2">>,
                             <<"profile", "relax">>})],
      [entity_id |-> id_light_b, state |-> "off",
       attributes |-> Attrs({<<"flash", "short">>})],
      [entity_id |-> id_switch_a, state |-> "on", attributes |-> EmptyDict],
      [entity_id |-> id_switch_a, state |-> "off", attributes |-> EmptyDict],
      [entity_id |-> id_climate_a, state |-> "heat",
       attributes |-> Attrs({<<"temperature", "21">>})],
      [entity_id |-> id_swi_a, state |-> "on", attributes |-> EmptyDict] }

\* Lists of at most n entity states.
RECURSIVE StateLists(_)
StateLists(n) ==
    IF n = 0 THEN {<<>>}
    ELSE LET shorter == StateLists(n - 1)
         IN  shorter \cup
             {Append(l, s) : l \in {x \in shorter : Len(x) = n - 1},
                             s \in EntityStates}

\* What the GET of /api/states ends in: a 200 with a JSON list, another
\* status, or a requests.exceptions.RequestException.
ServerResponses ==
    {[kind |-> "ok", states |-> l] : l \in StateLists(MaxStates)}
    \cup {[kind |-> "status", states |-> <<>>],
          [kind |-> "exception", states |-> <<>>]}

\* The map file as configparser presents it: config.sections() and
\* config.options(section).
section_lr ==
    <<"l", "r">>

section_br ==
    <<"b", "r">>

section_em ==
    <<"e", "m">>

ConfigSections ==
    <<section_lr, section_br, section_em>>

ConfigOptions(section) ==
    IF section = section_lr THEN <<id_light_a, id_switch_a>>
    ELSE IF section = section_br THEN <<id_light_b, id_climate_a, id_switch_a>>
    ELSE <<>>

\* The scene file a first run may be given as --source-scene.
EveningScene ==
    [entities |-> <<[key |-> id_light_a,
                     value |-> [mapping |-> FALSE, dict |-> EmptyDict,
                                str |-> "on"]],
                    [key |-> id_switch_a,
                     value |-> [mapping |-> FALSE, dict |-> EmptyDict,
                                str |-> "off"]]>>,
     name |-> "Evening"]

\* The command lines: each option is <<>> (not passed) or <<value>>.
SceneNameArgs ==
    {<<>>, <<DefaultSceneName>>, <<"Party">>}

TypesArgs ==
    {<<>>,
     <<DefaultTypes \o <<",", "c", "l", "i", "m", "a", "t", "e">>>>,
     <<light \o <<"s">>>>}

ColorTypeArgs ==
    {<<>>} \cup {<<LIGHT_COLOR_TYPES[i]>> : i \in 2..Len(LIGHT_COLOR_TYPES)}

\* --mapfile, --filter and --source-scene together.
FilterArgs ==
    LET m == <<"map.ini">>
        s == <<"evening.yaml">>
        f(str) == <<str>>
    IN  { <<<<>>, <<>>, <<>>>>,
          <<m, <<>>, <<>>>>,
          <<m, f(section_lr), <<>>>>,
          <<m, f(section_lr \o <<",">> \o section_br), <<>>>>,
          <<m, f(<<"k">>), <<>>>>,
          <<m, f(<<"k">>), s>>,
          <<m, f(section_em), <<>>>>,
          <<m, f(section_lr), s>>,
          <<<<>>, f(section_lr), s>>,
          <<<<>>, <<>>, s>> }

Argvs ==
    { [scenename |-> n, types |-> t, colortype |-> c,
       mapfile |-> fa[1], filter |-> fa[2], source_scene |-> fa[3]] :
      n \in SceneNameArgs, t \in TypesArgs, c \in ColorTypeArgs,
      fa \in FilterArgs }

\* ------------------------------------------------------------------------
\* main
\* ------------------------------------------------------------------------

VARIABLES
    argv,         \* the command line of the run
    server,       \* what the GET of /api/states ends in
    scene_file,   \* the text of the --source-scene file
    pc,           \* "resolve", "fetch", "loop", "done" (returned), "exit"
    filter_list,  \* main's filter_list
    scenename,    \* main's scenename
    states,       \* main's states
    idx,          \* position of the for loop in states
    output,       \* main's output dict
    requests,     \* number of HTTP requests issued
    written,      \* what was written: [dest, text] per write
    exit_status,  \* <<>> while running, then <<0>> or <<1>>
    stderr,       \* the error() calls made: [kind, ...]
    run,          \* 1, or 2 for a run on the scene the first one wrote
    first         \* in run 2: the argv and the text of the first run

vars ==
    <<argv, server, scene_file, pc, filter_list, scenename, states, idx,
      output, requests, written, exit_status, stderr, run, first>>

\* parser.parse_args(): an option not passed takes its default.
ParseArgs(a) ==
    [scenename |-> IF a.scenename = <<>> THEN DefaultSceneName
                   ELSE a.scenename[1],
     types |-> IF a.types = <<>> THEN DefaultTypes ELSE a.types[1],
     colortype |-> IF a.colortype = <<>> THEN DefaultColorType
                   ELSE a.colortype[1],
     mapfile |-> a.mapfile, filter |-> a.filter,
     source_scene |-> a.source_scene]

args ==
    ParseArgs(argv)

Init ==
    /\ argv \in Argvs
    /\ server \in ServerResponses
    /\ scene_file = EveningScene
    /\ pc = "resolve"
    /\ filter_list = <<>>
    /\ scenename = ""
    /\ states = <<>>
    /\ idx = 1
    /\ output = [entities |-> <<>>, name |-> ""]
    /\ requests = 0
    /\ written = <<>>
    /\ exit_status = <<>>
    /\ stderr = <<>>
    /\ run = 1
    /\ first = <<>>

\* error(message): one line on stderr, then sys.exit(1).
error(message) ==
    /\ stderr' = Append(stderr, message)
    /\ exit_status' = <<1>>
    /\ pc' = "exit"

\* Every section counts as requested.
AnySection(section, filters) ==
    TRUE

\* `section in filters`
SectionRequested(section, filters) ==
    ListContains(filters, section)

\* The loop over config.sections(): extend filter_list with the options of
\* every section that is in filters.
RECURSIVE MapfileFilter(_, _)
MapfileFilter(sections, filters) ==
    IF sections = <<>> THEN <<>>
    ELSE (IF SectionRequested(Head(sections), filters)
          THEN ConfigOptions(Head(sections)) ELSE <<>>)
         \o MapfileFilter(Tail(sections), filters)

\* The name is never taken from the source scene.
KeepSceneName(name, scene) ==
    name

\* The name taken when a source scene is read.
SourceSceneName(name, scene) ==
    IF name = DefaultSceneName THEN scene.name ELSE name

\* The empty filter_list is let through.
EmptyFilterIgnored(fl) ==
    FALSE

\* `if not filter_list` after the map file was read.
EmptyFilterFatal(fl) ==
    fl = <<>>

\* `args.mapfile and args.filter`
UseMapfile ==
    TruthyPath(args.mapfile) /\ Truthy(args.filter)

\* Lines 84-104: filter_list and scenename from the map file or the source
\* scene; an empty filter_list from the map file is fatal.
ResolveFilter ==
    /\ pc = "resolve"
    /\ IF UseMapfile
       THEN LET filters == Split(args.filter[1], ",")
                fl == MapfileFilter(ConfigSections, filters)
            IN  IF EmptyFilterFatal(fl)
                THEN /\ error([kind |-> "mapfile", mapfile |-> args.mapfile,
                               filter |-> args.filter])
                     /\ UNCHANGED <<filter_list, scenename>>
                ELSE /\ filter_list' = fl
                     /\ scenename' = args.scenename
                     /\ pc' = "fetch"
                     /\ UNCHANGED <<exit_status, stderr>>
       ELSE IF TruthyPath(args.source_scene)
       THEN LET scene == yaml_load(scene_file)
            IN  /\ scenename' = SourceSceneName(args.scenename, scene)
                /\ filter_list' = Keys(scene.entities)
                /\ pc' = "fetch"
                /\ UNCHANGED <<exit_status, stderr>>
       ELSE /\ filter_list' = <<>>
            /\ scenename' = args.scenename
            /\ pc' = "fetch"
            /\ UNCHANGED <<exit_status, stderr>>
    /\ UNCHANGED <<argv, server, scene_file, states, idx, output, requests,
                   written, run, first>>

\* Lines 113-119 with get_states: one GET; an exception or a status other
\* than 200 is fatal; otherwise states is the JSON list and output is set up.
Fetch ==
    /\ pc = "fetch"
    /\ requests' = requests + 1
    /\ IF server.kind = "exception"
       THEN /\ error([kind |-> "exception"])
            /\ UNCHANGED <<states, output, idx>>
       ELSE IF server.kind = "status"
       THEN /\ error([kind |-> "status"])
            /\ UNCHANGED <<states, output, idx>>
       ELSE /\ states' = server.states
            /\ output' = [entities |-> <<>>, name |-> scenename]
            /\ idx' = 1
            /\ pc' = "loop"
            /\ UNCHANGED <<exit_status, stderr>>
    /\ UNCHANGED <<argv, server, scene_file, filter_list, scenename, written,
                   run, first>>

\* `if filter_list: if state['entity_id'] not in filter_list: continue`
Skipped(state, fl) ==
    fl # <<>> /\ ~ListContains(fl, state.entity_id)

\* Lines 120-127: one iteration of the for loop.
ProcessState ==
    /\ pc = "loop"
    /\ idx <= Len(states)
    /\ LET state == states[idx]
           entity_state == output_attrs(state, args)
       IN  IF Skipped(state, filter_list) \/ entity_state.kind = "none"
           THEN /\ idx' = idx + 1
                /\ UNCHANGED <<output, pc, exit_status, stderr>>
           ELSE IF entity_state.kind = "error"
           THEN /\ error([kind |-> "unsupported",
                          device_type |-> entity_state.device_type,
                          entity_id |-> entity_state.entity_id,
                          at |-> idx])
                /\ UNCHANGED <<output, idx>>
           ELSE /\ output' = [output EXCEPT !.entities =
                                 DictUpdate(@, entity_state.entity_id,
                                            entity_state.nustate)]
                /\ idx' = idx + 1
                /\ UNCHANGED <<pc, exit_status, stderr>>
    /\ UNCHANGED <<argv, server, scene_file, filter_list, scenename, states,
                   requests, written, run, first>>

\* The write is not held back until the loop is over.
LoopAnywhere ==
    TRUE

\* The loop has gone through all of states.
LoopFinished ==
    idx > Len(states)

\* Lines 130-135: dump the scene and write it to --output (dest <<path>>)
\* or to standard output (dest <<>>); main returns and the status is 0.
\* args.output is read nowhere else, so it is drawn here.
WriteOutput ==
    /\ pc = "loop"
    /\ LoopFinished
    /\ \E dest \in {<<>>, <<"out.yaml">>} :
           written' = Append(written,
                             [dest |-> dest, text |-> yaml_dump(output)])
    /\ pc' = "done"
    /\ exit_status' = <<0>>
    /\ UNCHANGED <<argv, server, scene_file, filter_list, scenename, states,
                   idx, output, requests, stderr, run, first>>

\* The caller runs the program again on the scene it just wrote: the text
\* written is the --source-scene, no --mapfile, --filter or --scenename,
\* the other options and the server's states as before.
Rerun ==
    /\ run = 1
    /\ pc = "done"
    /\ written[1].text.entities # <<>>
    /\ run' = 2
    /\ first' = <<[argv |-> argv, text |-> written[1].text]>>
    /\ scene_file' = written[1].text
    /\ argv' = [argv EXCEPT !.mapfile = <<>>, !.filter = <<>>,
                            !.scenename = <<>>,
                            !.source_scene = <<"out.yaml">>]
    /\ pc' = "resolve"
    /\ filter_list' = <<>>
    /\ scenename' = ""
    /\ states' = <<>>
    /\ idx' = 1
    /\ output' = [entities |-> <<>>, name |-> ""]
    /\ requests' = 0
    /\ written' = <<>>
    /\ exit_status' = <<>>
    /\ stderr' = <<>>
    /\ UNCHANGED server

Next ==
    \/ ResolveFilter
    \/ Fetch
    \/ ProcessState
    \/ WriteOutput
    \/ Rerun

Spec ==
    Init /\ [][Next]_vars

\* ------------------------------------------------------------------------
\* Properties
\* ------------------------------------------------------------------------

\* The type names given by --types: the pieces between the commas.
TypeNames ==
    Range(Split(args.types, ","))

\* The entity ids the server returned.
FetchedIds ==
    {server.states[i].entity_id : i \in 1..Len(server.states)}

\* The entity ids of the documents written.
WrittenKeys ==
    UNION {Range(Keys(written[i].text.entities)) : i \in 1..Len(written)}

\* C1: every entity id in a written document was fetched, is in the filter
\* set when that is non-empty, and has a device type that is one of the
\* --types names and is light or switch.
C1_WrittenEntitiesPassedFilterAndType ==
    \A k \in WrittenKeys :
        /\ k \in FetchedIds
        /\ filter_list # <<>> => k \in Range(filter_list)
        /\ DeviceType(k) \in TypeNames
        /\ DeviceType(k) \in {light, switch}

\* C2: an entity whose device type is not one of the --types names is left
\* out of the output and is never the cause of a fatal error.
C2_TypeNotListedIsSkipped ==
    /\ \A i \in 1..Len(output.entities) :
           DeviceType(output.entities[i].key) \in TypeNames
    /\ \A i \in 1..Len(stderr) :
           stderr[i].kind = "unsupported"
               => stderr[i].device_type \in TypeNames

\* The state at position i passes the filter and has a type that is one of
\* the --types names but neither light nor switch.
UnsupportedAt(i) ==
    /\ ~(filter_list # <<>> /\ states[i].entity_id \notin Range(filter_list))
    /\ DeviceType(states[i].entity_id) \in TypeNames
    /\ DeviceType(states[i].entity_id) \notin {light, switch}

\* C3: the loop never gets past a state that passes the filter and has a
\* listed type other than light and switch (the run exits with status 1 at
\* it), and the state an unsupported type error names passed the filter.
C3_UnsupportedListedTypeIsFatal ==
    /\ pc \in {"loop", "done"} =>
           \A i \in 1..Len(states) : i < idx => ~UnsupportedAt(i)
    /\ \A e \in Range(stderr) :
           e.kind = "unsupported" =>
               /\ exit_status = <<1>>
               /\ pc = "exit"
               /\ e.entity_id = states[e.at].entity_id
               /\ (filter_list = <<>>
                   \/ e.entity_id \in Range(filter_list))

\* A run ended by a climate entity that --types lists.
C3_Witness ==
    /\ pc = "exit"
    /\ exit_status = <<1>>
    /\ \E e \in Range(stderr) :
           /\ e.kind = "unsupported"
           /\ e.device_type \in TypeNames
           /\ UnsupportedAt(e.at)

\* The colour keys a light's projection is to have: the preferred one when
\* present, else the first present in the declared order, else none.
ExpectedColorKeys(attributes, preferred) ==
    LET present == {i \in 1..Len(LIGHT_COLOR_TYPES) :
                        LIGHT_COLOR_TYPES[i] \in DOMAIN attributes}
    IN  IF preferred \in DOMAIN attributes THEN {preferred}
        ELSE IF present = {} THEN {}
        ELSE {LIGHT_COLOR_TYPES[CHOOSE i \in present :
                                    \A j \in present : i <= j]}

\* The last state before position n with the given entity id.
LastBefore(n, id) ==
    CHOOSE j \in 1..(n - 1) :
        /\ states[j].entity_id = id
        /\ \A k \in (j + 1)..(n - 1) : states[k].entity_id # id

\* C4: every light in the output carries at most one colour key: the
\* preferred colour type when the entity has it, else the first of
\* xy_color, rgb_color, color_name, color_temp it has, else none; the value
\* is the entity's.
C4_OneColorPreferredThenFirstPresent ==
    \A i \in 1..Len(output.entities) :
        LET item == output.entities[i]
            src == states[LastBefore(idx, item.key)]
            colors == DOMAIN item.value.dict \cap Range(LIGHT_COLOR_TYPES)
        IN  item.value.mapping =>
                /\ Cardinality(colors) <= 1
                /\ colors = ExpectedColorKeys(src.attributes, args.colortype)
                /\ \A c \in colors : item.value.dict[c] = src.attributes[c]

\* A light with two colours, neither the preferred one, is in the output.
C4_Witness ==
    \E i \in 1..Len(output.entities) :
        LET item == output.entities[i]
            src == states[LastBefore(idx, item.key)]
        IN  /\ item.value.mapping
            /\ args.colortype \notin DOMAIN src.attributes
            /\ Cardinality(DOMAIN src.attributes
                           \cap Range(LIGHT_COLOR_TYPES)) >= 2
            /\ "color_name" \in DOMAIN item.value.dict

\* The source scene branch is the one taken.
SourceSceneTaken ==
    /\ ~(TruthyPath(argv.mapfile) /\ Truthy(argv.filter))
    /\ TruthyPath(argv.source_scene)

\* C5: with a source scene, the filter set is the set of the file's entity
\* keys and the scene name is the file's name, unless --scenename was
\* passed, whatever its value: then it is the value passed.
C5_SourceSceneFilterAndName ==
    (SourceSceneTaken /\ pc # "resolve") =>
        /\ Range(filter_list) = Range(Keys(scene_file.entities))
        /\ scenename = IF argv.scenename = <<>> THEN scene_file.name
                       ELSE argv.scenename[1]
        /\ \A i \in 1..Len(written) : written[i].text.name = scenename

\* The option names of the map file sections --filter names.
RequestedOptions ==
    UNION {Range(ConfigOptions(sec)) :
           sec \in Range(ConfigSections) \cap Range(Split(argv.filter[1], ","))}

\* --mapfile and --filter are both given.
MapfileAndFilter ==
    TruthyPath(argv.mapfile) /\ Truthy(argv.filter)

\* C6: with a map file and --filter, the filter set is the union of the
\* option names of the sections named, and no entity outside it is in the
\* output.
C6_MapfileFilterIsUnionOfRequested ==
    (MapfileAndFilter /\ pc # "resolve") =>
        /\ Range(filter_list) = RequestedOptions
        /\ \A i \in 1..Len(output.entities) :
               output.entities[i].key \in RequestedOptions
        /\ WrittenKeys \subseteq RequestedOptions

\* A document was written for which a fetched light named only by a
\* section that was not requested stayed out.
C6_Witness ==
    /\ MapfileAndFilter
    /\ pc = "done"
    /\ WrittenKeys # {}
    /\ id_light_b \in FetchedIds
    /\ id_light_b \in Range(ConfigOptions(section_br))
    /\ id_light_b \notin Range(filter_list)
    /\ id_light_b \notin WrittenKeys

\* C7: a fatal error ends the run with status 1 and nothing written; there
\* is at most one write, made only after all states were processed without
\* error.
C7_AllOrNothing ==
    /\ (pc = "exit" \/ stderr # <<>>) =>
           exit_status = <<1>> /\ written = <<>>
    /\ exit_status = <<1>> => pc = "exit" /\ Len(stderr) = 1
    /\ Len(written) <= 1
    /\ written # <<>> =>
           /\ pc = "done"
           /\ exit_status = <<0>>
           /\ server.kind = "ok"
           /\ idx > Len(states)
           /\ written[1].text = yaml_dump(output)

\* A run that had assembled an entity ended on an unsupported type.
C7_Witness ==
    /\ pc = "exit"
    /\ exit_status = <<1>>
    /\ stderr[1].kind = "unsupported"
    /\ output.entities # <<>>
    /\ written = <<>>

\* C8 as stated: the entity keys are written in insertion order.
C8_KeysInInsertionOrder ==
    \A i \in 1..Len(written) :
        Keys(written[i].text.entities) = Keys(output.entities)

\* C8 as amended: the entity keys are written in ascending order of entity
\* id, each once, whatever the order of insertion.
C8_KeysInSortedOrder ==
    \A i \in 1..Len(written) :
        LET keys == Keys(written[i].text.entities)
        IN  /\ Range(keys) = Range(Keys(output.entities))
            /\ \A j \in 1..(Len(keys) - 1) : StrLess(keys[j], keys[j + 1])

\* A document whose keys were inserted in another order than written.
C8_Witness ==
    /\ written # <<>>
    /\ Len(output.entities) >= 2
    /\ Keys(written[1].text.entities) # Keys(output.entities)

\* C9: with a map file and --filter whose sections have no options at all,
\* the run exits with status 1 before any request and writes nothing.
C9_EmptyMapfileFilterIsFatal ==
    (MapfileAndFilter /\ RequestedOptions = {} /\ pc # "resolve") =>
        /\ pc = "exit"
        /\ exit_status = <<1>>
        /\ stderr[1].kind = "mapfile"
        /\ requests = 0
        /\ written = <<>>

\* Such a run, with a source scene given as well, has exited.
C9_Witness ==
    /\ MapfileAndFilter
    /\ RequestedOptions = {}
    /\ TruthyPath(argv.source_scene)
    /\ pc = "exit"
    /\ requests = 0

\* C10: the run on the scene a first run wrote succeeds and writes the
\* same document.
C10_RerunReproducesScene ==
    (run = 2 /\ pc \in {"done", "exit"}) =>
        /\ pc = "done"
        /\ exit_status = <<0>>
        /\ written[1].text = first[1].text

\* A second run ended, after a first one that was given a name and a map
\* file filter and left a fetched entity out.
C10_Witness ==
    /\ run = 2
    /\ pc = "done"
    /\ first[1].argv.scenename = <<"Party">>
    /\ TruthyPath(first[1].argv.mapfile)
    /\ FetchedIds \ WrittenKeys # {}

====
